---- MODULE Spec2Model ----
(***************************************************************************)
(* Build-With-AWS: the two notebooks of the repository as state machines.  *)
(*                                                                         *)
(*   02_Create-Knowledge-Base.ipynb  (the provisioning notebook)  -> Spec  *)
(*       two interleaved runs of it                        -> SpecTwoRuns  *)
(*   unnamed/part_000                (the query notebook)    -> SpecQuery  *)
(*       with its prompt literal edited                   -> SpecTemplate  *)
(*       run on through its last cell                        -> SpecChain  *)
(*                                                                         *)
(* A notebook is a list of cells run in document order against one kernel  *)
(* namespace.  One action models one code cell (a polling or retry loop    *)
(* takes one step per iteration).  A cell whose body raises an exception   *)
(* that nothing in the cell catches stops there: the statements after the  *)
(* raising one are not executed, the cell is recorded in `raised` and the  *)
(* exception kind in `err`.  Markdown cells are never executed.            *)
(***************************************************************************)
EXTENDS Integers, Sequences, FiniteSets, TLC

\* ------------------------------------------------------------ bounds
\* random.randrange(200, 900) is modelled over NumSuffix consecutive values.
NumSuffix == 2
\* Poll counters saturate at PollCap iterations.
PollCap == 4
\* The wait budget C1 speaks of, in poll intervals (no such value in the code).
MaxWaitPolls == 2

\* The retrieval stub returns at most MaxResults passages.
MaxResults == 2
\* The reader asks at most MaxQueries queries in one kernel.
MaxQueries == 2

\* ------------------------------------------------- program constants
NumberOfResults == 5
RetriesMaxAttempts == 0
SuffixLo == 200
NumUrls == 16
NumFilenames == 14
StopMaxAttemptNumber == 7

\* urls (lines 362-379), each named by the guide its path leads to.
urls == <<"AWSEC2", "AmazonS3", "amazondynamodb", "AmazonRDS/UserGuide",
          "AmazonRDS/AuroraUserGuide", "lambda", "vpc", "athena", "apigateway",
          "bedrock", "AmazonCloudFront", "AmazonCloudWatch", "codewhisperer",
          "cognito", "documentdb", "neptune">>

\* filenames (lines 382-398).  No comma separates the last two literals, so
\* Python joins them into one element.
filenames == <<"AmazonEC2UserGuide.pdf", "AmazonS3UserGuide.pdf",
               "AmazonDynamodbDeveloperGuide.pdf", "AmazonAuroraUserGuide.pdf",
               "AmazonLambda.pdf", "AmazonVPC.pdf", "AmazonAthena.pdf",
               "AmazonAPIGateway.pdf", "AmazonBedrock.pdf",
               "AmazonCloudFront.pdf", "AmazonCloudWatch.pdf",
               "Amazoncodewhisperer.pdf", "Amazoncognito.pdf",
               "Amazondocumentdb.pdfneptune.pdf">>

Suffixes == SuffixLo .. (SuffixLo + NumSuffix - 1)

Min(a, b) == IF a <= b THEN a ELSE b

VARIABLES
    \* --- provisioning notebook
    pc,       \* the cell (or the position inside a cell's loop) to execute next
    err,      \* the uncaught exception that stopped the cell at pc, or "none"
    raised,   \* the cells that raised an uncaught exception
    ns,       \* the names bound in the kernel namespace
    k,        \* the values of the kernel's variables (by the notebook's names)
    aws,      \* the state of the services
    disk,     \* ./data and the %store database
    rec,      \* what a recording backend has seen of this run
    other,    \* a second run of the notebook, in another kernel, on the same account
    \* --- query notebook
    qpc,      \* the cell of the retrieve-then-generate pass to execute next
    qerr,     \* the uncaught exception that ended the pass at qpc, or "none"
    q,        \* the values of the kernel's variables (by the notebook's names)
    qrec      \* what recording stubs of the two services have seen of this pass

provVars == <<pc, err, raised, ns, k, aws, disk, rec, other>>

queryVars == <<qpc, qerr, q, qrec>>

vars == <<provVars, queryVars>>

\* ------------------------------------------------------------ cells
\* The code cells of the provisioning notebook, in document order.
Cells == <<"setup", "bucket", "names", "collection", "host", "wait_collection",
           "access_policy", "index_setup", "create_index", "download", "upload",
           "kb_config", "create_kb", "get_kb", "create_ds", "get_ds",
           "start_job", "job", "poll_job", "kb_id", "store", "end">>

\* The cell a position belongs to (loops have positions inside their cell).
CellOf(p) ==
    CASE p = "bucket_create" -> "bucket"
      [] p = "wait_collection_loop" -> "wait_collection"
      [] p = "create_kb_print" -> "create_kb"
      [] OTHER -> p

CellIndex(c) == CHOOSE i \in 1..Len(Cells) : Cells[i] = c

NextCell(p) == Cells[CellIndex(CellOf(p)) + 1]

\* The cells strictly after cell c.
After(c) == {Cells[i] : i \in (CellIndex(c) + 1)..Len(Cells)}

NoIndex == [base |-> "", suffix |-> 0]

Range(s) == {s[i] : i \in DOMAIN s}

\* rec.calls lists the mutating service calls of the run in the order of their
\* first issue.
Log(log, c) == IF c \in Range(log) THEN log ELSE Append(log, c)

\* The creation calls of the workflow.
CreationCalls == {"create_bucket", "create_collection", "create_index",
                  "create_knowledge_base", "create_data_source"}

\* A data source is named bedrock-sample-knowledge-base-{suffix} (name, line
\* 467) inside one knowledge base.
DataSource(kb, suffix) == [kb |-> kb, name |-> suffix]

NoDataSource == DataSource(0, 0)

\* The files ./data holds after the download loop has saved n URLs.
Saved(n) == [i \in 1..n |-> [url |-> urls[i], file |-> filenames[i]]]

\* The record of a run that has issued nothing yet.
NoCalls(before) ==
    [provisionedBefore |-> before, calls |-> <<>>, collPolls |-> 0,
     jobPolls |-> 0, kbAttempts |-> 0, kbWaits |-> 0,
     kbOutcome |-> "none", kbCaught |-> "none",
     policyOutcome |-> "none", indexOutcome |-> "none",
     indexRequested |-> NoIndex, kbReturned |-> 0, dsKb |-> 0, jobKb |-> 0,
     stored |-> FALSE]

\* The values of a kernel in which no cell has run.
NoValues ==
    [suffix |-> 0, index_name |-> NoIndex, collection |-> 0,
     response |-> "", vectorIndexName |-> NoIndex, kb |-> 0,
     ds |-> NoDataSource, job |-> "", kb_id |-> 0]

\* The names and values an earlier complete run with suffix s leaves in a
\* kernel that has not been restarted since: the restart of cell 109-111 is a
\* script for the classic notebook front end and does nothing elsewhere.
LeftNames ==
    {"suffix", "index_name", "collection", "response", "kb", "ds", "job",
     "kb_id", "host", "access_policy", "create_knowledge_base_func",
     "bucket_name", "region_name", "s3bucket", "vector_store_name",
     "aoss_client", "bedrock_kb_execution_role",
     "bedrock_kb_execution_role_arn", "collection_id", "awsauth", "body_json",
     "oss_client", "urls", "filenames", "data_root", "uploadDirectory",
     "opensearchServerlessConfiguration", "chunkingStrategyConfiguration",
     "s3Configuration", "embeddingModelArn", "name", "description", "roleArn",
     "get_kb_response", "create_ds_response", "start_job_response",
     "get_job_response"}

LeftValues(s) ==
    [suffix |-> s, index_name |-> [base |-> "bedrock-sample-index", suffix |-> s],
     collection |-> s, response |-> "acknowledged",
     vectorIndexName |-> [base |-> "bedrock-sample-index", suffix |-> s],
     kb |-> s, ds |-> DataSource(s, s), job |-> "COMPLETE", kb_id |-> s]

\* The backend an earlier complete run with suffix s leaves behind.
Provisioned(s) ==
    [bucketExists |-> TRUE,
     collStatus   |-> [t \in Suffixes |-> IF t = s THEN "ACTIVE" ELSE "NONE"],
     indexes      |-> {[base |-> "bedrock-sample-index", suffix |-> s]},
     kbs          |-> {s},
     dataSources  |-> {DataSource(s, s)},
     jobStatus    |-> "NONE",
     objects      |-> Min(NumUrls, NumFilenames)]

Fresh ==
    [bucketExists |-> FALSE,
     collStatus   |-> [t \in Suffixes |-> "NONE"],
     indexes      |-> {},
     kbs          |-> {},
     dataSources  |-> {},
     jobStatus    |-> "NONE",
     objects      |-> 0]

\* The kernel before the first cell: just restarted (cell 109-111), or left
\* as an earlier complete run has left it.  create_knowledge_base_func is
\* written in a markdown cell (lines 499-519), so no cell of the notebook binds
\* it; it is bound only in a kernel where the reader has run that text by hand.
InitProv ==
    /\ pc = "setup"
    /\ err = "none"
    /\ raised = {}
    /\ \/ /\ ns \in {{}, {"create_knowledge_base_func"}}
          /\ k = NoValues
          /\ aws \in {Fresh} \cup {Provisioned(s) : s \in Suffixes}
          /\ disk = [data |-> 0, saved |-> <<>>, store |-> 0]
       \/ \E s \in Suffixes :
             /\ ns = LeftNames
             /\ k = LeftValues(s)
             /\ aws = Provisioned(s)
             /\ disk = [data |-> Min(NumUrls, NumFilenames),
                        saved |-> Saved(Min(NumUrls, NumFilenames)), store |-> s]
    /\ rec = NoCalls(aws # Fresh)

\* No second run.
OtherOff == [pc |-> "off", err |-> "none", suffix |-> 0, calls |-> <<>>]

\* ------------------------------------------------- exceptions, control
\* An uncaught exception of kind e stops the cell at pc.
Raise(e) ==
    /\ err' = e
    /\ raised' = raised \cup {CellOf(pc)}
    /\ pc' = pc
    /\ UNCHANGED <<queryVars, other>>

\* The cell completes; the next position is p.
Goto(p) ==
    /\ pc' = p
    /\ err' = "none"
    /\ raised' = raised
    /\ UNCHANGED <<queryVars, other>>

Running(p) == pc = p /\ err = "none"

Defined(names) == names \subseteq ns

\* The reader goes on with the next cell after a cell has failed (the workflow
\* is resumed below the failed step).
Resume ==
    /\ err # "none"
    /\ pc # "end"
    /\ pc' = NextCell(pc)
    /\ err' = "none"
    /\ UNCHANGED <<raised, ns, k, aws, disk, rec, queryVars, other>>

\* ------------------------------------------------------------ cells 146-176
\* suffix = random.randrange(200, 900); clients; bucket_name.
Setup ==
    /\ Running("setup")
    /\ \E s \in Suffixes : k' = [k EXCEPT !.suffix = s]
    /\ ns' = ns \cup {"suffix", "bucket_name", "region_name"}
    /\ Goto("bucket")
    /\ UNCHANGED <<aws, disk, rec>>

\* try: s3_client.head_bucket(Bucket=bucket_name); a ClientError leads to the
\* except branch.
BucketHead ==
    /\ Running("bucket")
    /\ IF aws.bucketExists THEN Goto("names") ELSE Goto("bucket_create")
    /\ UNCHANGED <<ns, k, aws, disk, rec>>

\* except ClientError: s3bucket = s3_client.create_bucket(Bucket=bucket_name,
\* CreateBucketConfiguration={'LocationConstraint': region_name}).  A bucket
\* that has come to exist since head_bucket is refused; nothing catches that.
BucketCreate ==
    /\ Running("bucket_create")
    /\ rec' = [rec EXCEPT !.calls = Log(@, "create_bucket")]
    /\ IF aws.bucketExists
       THEN Raise("BucketAlreadyOwnedByYou") /\ UNCHANGED <<ns, aws>>
       ELSE /\ aws' = [aws EXCEPT !.bucketExists = TRUE]
            /\ ns' = ns \cup {"s3bucket"}
            /\ Goto("names")
    /\ UNCHANGED <<k, disk>>

\* ------------------------------------------------------------ cells 198-248
\* vector_store_name, index_name (first assignment), aoss_client, then
\* create_bedrock_execution_role (utility.py, an IAM call that may be refused).
Names ==
    /\ Running("names")
    /\ k' = [k EXCEPT !.index_name =
                 [base |-> "bedrock-sample-rag-index", suffix |-> k.suffix]]
    /\ \E ok \in BOOLEAN :
         IF ok
         THEN /\ ns' = ns \cup {"vector_store_name", "index_name", "aoss_client",
                                "bedrock_kb_execution_role",
                                "bedrock_kb_execution_role_arn"}
              /\ Goto("collection")
         ELSE /\ ns' = ns \cup {"vector_store_name", "index_name", "aoss_client"}
              /\ Raise("ClientError")
    /\ UNCHANGED <<aws, disk, rec>>

\* create_policies_in_oss(...) (utility.py; it succeeds or raises), then
\* collection = aoss_client.create_collection(name=vector_store_name, ...):
\* issued with no existence check, refused when the name is taken.
Collection ==
    /\ Running("collection")
    /\ IF ~Defined({"vector_store_name", "aoss_client",
                    "bedrock_kb_execution_role_arn"})
       THEN Raise("NameError") /\ UNCHANGED <<ns, k, aws, rec>>
       ELSE \E policies \in {"ok", "ConflictException"} :
              IF policies # "ok"
              THEN Raise(policies) /\ UNCHANGED <<ns, k, aws, rec>>
              ELSE /\ rec' = [rec EXCEPT !.calls = Log(@, "create_collection")]
                   /\ IF aws.collStatus[k.suffix] # "NONE"
                      THEN /\ Raise("ConflictException")
                           /\ ns' = ns \cup {"access_policy"}
                           /\ UNCHANGED <<k, aws>>
                      ELSE /\ aws' = [aws EXCEPT !.collStatus[k.suffix] = "CREATING"]
                           /\ k' = [k EXCEPT !.collection = k.suffix]
                           /\ ns' = ns \cup {"access_policy", "collection"}
                           /\ Goto("host")
    /\ UNCHANGED disk

\* collection_id = collection['createCollectionDetail']['id']; host = ...
Host ==
    /\ Running("host")
    /\ IF Defined({"collection", "region_name"})
       THEN ns' = ns \cup {"collection_id", "host"} /\ Goto("wait_collection")
       ELSE ns' = ns /\ Raise("NameError")
    /\ UNCHANGED <<k, aws, disk, rec>>

\* What a status read can return: a collection being created may have settled.
Settle(st) == IF st = "CREATING" THEN {"CREATING", "ACTIVE", "FAILED"} ELSE {st}

\* response = aoss_client.batch_get_collection(names=[vector_store_name])
\* (line 240); an unknown name gives an empty collectionDetails list, and the
\* loop condition's [0] raises IndexError.
WaitCollection ==
    /\ Running("wait_collection")
    /\ IF ~Defined({"vector_store_name", "aoss_client"})
       THEN ns' = ns /\ Raise("NameError") /\ UNCHANGED <<k, aws>>
       ELSE IF aws.collStatus[k.suffix] = "NONE"
       THEN ns' = ns \cup {"response"} /\ Raise("IndexError") /\ UNCHANGED <<k, aws>>
       ELSE \E r \in Settle(aws.collStatus[k.suffix]) :
              /\ aws' = [aws EXCEPT !.collStatus[k.suffix] = r]
              /\ k' = [k EXCEPT !.response = r]
              /\ ns' = ns \cup {"response"}
              /\ Goto("wait_collection_loop")
    /\ UNCHANGED <<disk, rec>>

\* while status == 'CREATING': interactive_sleep(30); response = batch_get...
\* The loop has no other exit.
WaitCollectionPoll ==
    /\ Running("wait_collection_loop")
    /\ k.response = "CREATING"
    /\ \E r \in Settle(aws.collStatus[k.suffix]) :
         /\ aws' = [aws EXCEPT !.collStatus[k.suffix] = r]
         /\ k' = [k EXCEPT !.response = r]
    /\ rec' = [rec EXCEPT !.collPolls = Min(@ + 1, PollCap)]
    /\ Goto("wait_collection_loop")
    /\ UNCHANGED <<ns, disk>>

\* The loop condition is false: print('Collection successfully created:').
WaitCollectionExit ==
    /\ Running("wait_collection_loop")
    /\ k.response # "CREATING"
    /\ Goto("access_policy")
    /\ UNCHANGED <<ns, k, aws, disk, rec>>

\* ------------------------------------------------------------ cells 257-343
\* AccessPolicy without the try statement: an exception of the call stops the
\* cell.
AccessPolicyNoCatch ==
    /\ Running("access_policy")
    /\ \E o \in IF Defined({"collection_id", "bedrock_kb_execution_role"})
                THEN {"ok", "already_exists", "AccessDenied"}
                ELSE {"NameError"} :
         /\ rec' = [rec EXCEPT !.policyOutcome = o]
         /\ IF o = "ok" THEN Goto("index_setup") ELSE Raise(o)
    /\ UNCHANGED <<ns, k, aws, disk>>

\* try: create_oss_policy_attach_bedrock_execution_role(...); sleep(60)
\* except Exception: print("Policy already exists").  Every exception, a
\* NameError on an unbound argument included, ends in the except branch.
AccessPolicy ==
    /\ Running("access_policy")
    /\ \E o \in IF Defined({"collection_id", "bedrock_kb_execution_role"})
                THEN {"ok", "already_exists", "AccessDenied"}
                ELSE {"NameError"} :
         rec' = [rec EXCEPT !.policyOutcome = o]
    /\ Goto("index_setup")
    /\ UNCHANGED <<ns, k, aws, disk>>

\* index_name = f"bedrock-sample-index-{suffix}" (second assignment, line 285),
\* body_json, then oss_client = OpenSearch(hosts=[{'host': host, ...}]).
IndexSetup ==
    /\ Running("index_setup")
    /\ k' = [k EXCEPT !.index_name =
                 [base |-> "bedrock-sample-index", suffix |-> k.suffix]]
    /\ IF Defined({"host"})
       THEN /\ ns' = ns \cup {"awsauth", "index_name", "body_json", "oss_client"}
            /\ Goto("create_index")
       ELSE /\ ns' = ns \cup {"awsauth", "index_name", "body_json"}
            /\ Raise("NameError")
    /\ UNCHANGED <<aws, disk, rec>>

\* What oss_client.indices.create(index=index_name, ...) can meet: the endpoint
\* of a collection that is not ACTIVE does not answer; an existing index and a
\* rejected body are both a RequestError; a 403 is an AuthorizationException.
IndexOutcomes ==
    IF aws.collStatus[k.collection] # "ACTIVE" THEN {"ConnectionError"}
    ELSE IF k.index_name \in aws.indexes THEN {"RequestError_exists"}
    ELSE {"created", "RequestError_rejected", "AuthorizationException"}

\* try: response = oss_client.indices.create(...); sleep(60)
\* except RequestError: print(...)   -- only RequestError is caught.
CreateIndex ==
    /\ Running("create_index")
    /\ IF ~Defined({"oss_client", "index_name", "body_json"})
       THEN Raise("NameError") /\ UNCHANGED <<ns, k, aws, rec>>
       ELSE \E o \in IndexOutcomes :
              /\ rec' = [rec EXCEPT !.calls = Log(@, "create_index"),
                                    !.indexOutcome = o,
                                    !.indexRequested = k.index_name]
              /\ IF o = "created"
                 THEN /\ aws' = [aws EXCEPT !.indexes = @ \cup {k.index_name}]
                      /\ k' = [k EXCEPT !.response = "acknowledged"]
                      /\ ns' = ns
                      /\ Goto("download")
                 ELSE IF o \in {"RequestError_exists", "RequestError_rejected"}
                 THEN Goto("download") /\ UNCHANGED <<ns, k, aws>>
                 ELSE Raise(o) /\ UNCHANGED <<ns, k, aws>>
    /\ UNCHANGED disk

\* ------------------------------------------------------------ cells 359-428
\* for idx, url in enumerate(urls): urlretrieve(url, data_root + filenames[idx])
\* urls has NumUrls entries and filenames NumFilenames: filenames[idx] raises
\* IndexError once idx reaches len(filenames).
Download ==
    /\ Running("download")
    /\ disk' = [disk EXCEPT !.data = Min(NumUrls, NumFilenames),
                            !.saved = Saved(Min(NumUrls, NumFilenames))]
    /\ ns' = ns \cup {"urls", "filenames", "data_root"}
    /\ IF NumUrls > NumFilenames THEN Raise("IndexError") ELSE Goto("upload")
    /\ UNCHANGED <<k, aws, rec>>

\* Upload with the def statement only: uploadDirectory is never called.
UploadNotCalled ==
    /\ Running("upload")
    /\ ns' = ns \cup {"uploadDirectory"}
    /\ Goto("kb_config")
    /\ UNCHANGED <<k, aws, disk, rec>>

\* uploadDirectory(data_root, bucket_name): one upload_file per file of ./data.
Upload ==
    /\ Running("upload")
    /\ IF Defined({"data_root", "bucket_name"})
       THEN /\ aws' = [aws EXCEPT !.objects = IF disk.data > @ THEN disk.data ELSE @]
            /\ rec' = [rec EXCEPT !.calls = Log(@, "upload_file")]
            /\ ns' = ns \cup {"uploadDirectory"}
            /\ Goto("kb_config")
       ELSE /\ ns' = ns \cup {"uploadDirectory"}
            /\ Raise("NameError")
            /\ UNCHANGED <<aws, rec>>
    /\ UNCHANGED <<k, disk>>

\* ------------------------------------------------------------ cells 455-533
\* A storage configuration that names the index by the value of the first
\* assignment of index_name (line 201).
KbConfigFirstName ==
    /\ Running("kb_config")
    /\ IF ~Defined({"collection", "index_name"})
       THEN Raise("NameError") /\ UNCHANGED <<ns, k>>
       ELSE /\ k' = [k EXCEPT !.vectorIndexName =
                        [base |-> "bedrock-sample-rag-index",
                         suffix |-> k.suffix]]
            /\ IF Defined({"bedrock_kb_execution_role_arn"})
               THEN /\ ns' = ns \cup {"opensearchServerlessConfiguration",
                                      "chunkingStrategyConfiguration",
                                      "s3Configuration", "embeddingModelArn",
                                      "name", "description", "roleArn"}
                    /\ Goto("create_kb")
               ELSE /\ ns' = ns \cup {"opensearchServerlessConfiguration",
                                      "chunkingStrategyConfiguration",
                                      "s3Configuration", "embeddingModelArn",
                                      "name", "description"}
                    /\ Raise("NameError")
    /\ UNCHANGED <<aws, disk, rec>>

\* opensearchServerlessConfiguration (reads collection and index_name), the
\* chunking and S3 configuration, embeddingModelArn, name, description, and
\* last roleArn = bedrock_kb_execution_role_arn.
KbConfig ==
    /\ Running("kb_config")
    /\ IF ~Defined({"collection", "index_name"})
       THEN Raise("NameError") /\ UNCHANGED <<ns, k>>
       ELSE /\ k' = [k EXCEPT !.vectorIndexName = k.index_name]
            /\ IF Defined({"bedrock_kb_execution_role_arn"})
               THEN /\ ns' = ns \cup {"opensearchServerlessConfiguration",
                                      "chunkingStrategyConfiguration",
                                      "s3Configuration", "embeddingModelArn",
                                      "name", "description", "roleArn"}
                    /\ Goto("create_kb")
               ELSE /\ ns' = ns \cup {"opensearchServerlessConfiguration",
                                      "chunkingStrategyConfiguration",
                                      "s3Configuration", "embeddingModelArn",
                                      "name", "description"}
                    /\ Raise("NameError")
    /\ UNCHANGED <<aws, disk, rec>>

\* The names create_knowledge_base_func reads when it runs.
KbArgs == {"name", "description", "roleArn", "embeddingModelArn",
           "opensearchServerlessConfiguration"}

\* What bedrock_agent_client.create_knowledge_base(...) can answer: a taken
\* name is refused; the index named in the storage configuration must exist in
\* an ACTIVE collection; otherwise the call succeeds or fails transiently (the
\* data access policy may not be enforced yet) or for good (the role may not
\* be allowed to use the embedding model).
KbOutcomes ==
    IF k.suffix \in aws.kbs THEN {"ConflictException"}
    ELSE IF \/ aws.collStatus[k.collection] # "ACTIVE"
            \/ k.vectorIndexName \notin aws.indexes
    THEN {"ValidationException"}
    ELSE {"ok", "ValidationException", "AccessDeniedException"}

\* Where the cell goes after an attempt that raised: @retry(...,
\* stop_max_attempt_number=7) calls again until the 7th attempt has failed,
\* then re-raises into the cell's `except Exception`, which prints.
AfterFailedAttemptNoStop(n) == "create_kb"

AfterFailedAttempt(n) ==
    IF n >= StopMaxAttemptNumber THEN "create_kb_print" ELSE "create_kb"

\* The record after an attempt that raised o: the decorator sleeps
\* (wait_random_min..wait_random_max) before it calls again, and when it stops
\* it raises o into the cell's try statement.
AttemptFailed(r, o) ==
    LET n == r.kbAttempts + 1 IN
    [r EXCEPT !.kbAttempts = n,
              !.kbOutcome = o,
              !.kbWaits = IF AfterFailedAttempt(n) = "create_kb" THEN @ + 1 ELSE @,
              !.kbCaught = IF AfterFailedAttempt(n) = "create_kb" THEN @ ELSE o]

\* try: kb = create_knowledge_base_func()  except Exception as err: print(...)
\* One step per attempt.  An unbound create_knowledge_base_func is a NameError
\* that the except branch prints as well.
CreateKb ==
    /\ Running("create_kb")
    /\ IF ~Defined({"create_knowledge_base_func"})
       THEN /\ rec' = [rec EXCEPT !.kbCaught = "NameError"]
            /\ Goto("create_kb_print")
            /\ UNCHANGED <<ns, k, aws>>
       ELSE IF ~Defined(KbArgs)
       THEN /\ rec' = AttemptFailed(rec, "NameError")
            /\ Goto(AfterFailedAttempt(rec.kbAttempts + 1))
            /\ UNCHANGED <<ns, k, aws>>
       ELSE \E o \in KbOutcomes :
              IF o = "ok"
              THEN /\ rec' = [rec EXCEPT !.kbAttempts = @ + 1,
                                         !.kbOutcome = o,
                                         !.kbReturned = k.suffix,
                                         !.calls = Log(@, "create_knowledge_base")]
                   /\ aws' = [aws EXCEPT !.kbs = @ \cup {k.suffix}]
                   /\ k' = [k EXCEPT !.kb = k.suffix]
                   /\ ns' = ns \cup {"kb"}
                   /\ Goto("create_kb_print")
              ELSE /\ rec' = [AttemptFailed(rec, o) EXCEPT
                                !.calls = Log(@, "create_knowledge_base")]
                   /\ Goto(AfterFailedAttempt(rec.kbAttempts + 1))
                   /\ UNCHANGED <<ns, k, aws>>
    /\ UNCHANGED disk

\* pp.pprint(kb), after the try statement.
CreateKbPrint ==
    /\ Running("create_kb_print")
    /\ IF Defined({"kb"}) THEN Goto("get_kb") ELSE Raise("NameError")
    /\ UNCHANGED <<ns, k, aws, disk, rec>>

\* ------------------------------------------------------------ cells 542-610
\* get_kb_response = bedrock_agent_client.get_knowledge_base(kb['knowledgeBaseId'])
GetKb ==
    /\ Running("get_kb")
    /\ IF Defined({"kb"})
       THEN ns' = ns \cup {"get_kb_response"} /\ Goto("create_ds")
       ELSE ns' = ns /\ Raise("NameError")
    /\ UNCHANGED <<k, aws, disk, rec>>

\* create_ds_response = bedrock_agent_client.create_data_source(name = name, ...,
\* knowledgeBaseId = kb['knowledgeBaseId'], ...); ds = ...["dataSource"]
CreateDs ==
    /\ Running("create_ds")
    /\ IF ~Defined({"kb", "name", "description", "s3Configuration",
                    "chunkingStrategyConfiguration"})
       THEN Raise("NameError") /\ UNCHANGED <<ns, k, aws, rec>>
       ELSE /\ rec' = [rec EXCEPT !.calls = Log(@, "create_data_source"),
                                    !.dsKb = k.kb]
            /\ IF k.kb \notin aws.kbs
               THEN Raise("ResourceNotFoundException") /\ UNCHANGED <<ns, k, aws>>
               ELSE IF DataSource(k.kb, k.suffix) \in aws.dataSources
               THEN Raise("ConflictException") /\ UNCHANGED <<ns, k, aws>>
               ELSE /\ aws' = [aws EXCEPT !.dataSources =
                                            @ \cup {DataSource(k.kb, k.suffix)}]
                    /\ k' = [k EXCEPT !.ds = DataSource(k.kb, k.suffix)]
                    /\ ns' = ns \cup {"create_ds_response", "ds"}
                    /\ Goto("get_ds")
    /\ UNCHANGED disk

\* bedrock_agent_client.get_data_source(kb['knowledgeBaseId'], ds["dataSourceId"])
GetDs ==
    /\ Running("get_ds")
    /\ IF Defined({"kb", "ds"}) THEN Goto("start_job") ELSE Raise("NameError")
    /\ UNCHANGED <<ns, k, aws, disk, rec>>

\* start_job_response = bedrock_agent_client.start_ingestion_job(...); the
\* service may refuse the call (throttling, access denied), and nothing
\* catches that.
StartJob ==
    /\ Running("start_job")
    /\ IF Defined({"kb", "ds"})
       THEN /\ rec' = [rec EXCEPT !.calls = Log(@, "start_ingestion_job"),
                                    !.jobKb = k.kb]
            /\ \E ok \in BOOLEAN :
                 IF ok
                 THEN /\ aws' = [aws EXCEPT !.jobStatus = "STARTING"]
                      /\ ns' = ns \cup {"start_job_response"}
                      /\ Goto("job")
                 ELSE Raise("ClientError") /\ UNCHANGED <<ns, aws>>
       ELSE Raise("NameError") /\ UNCHANGED <<ns, aws, rec>>
    /\ UNCHANGED <<k, disk>>

\* job = start_job_response["ingestionJob"]
Job ==
    /\ Running("job")
    /\ IF Defined({"start_job_response"})
       THEN /\ k' = [k EXCEPT !.job = "STARTING"]
            /\ ns' = ns \cup {"job"}
            /\ Goto("poll_job")
       ELSE Raise("NameError") /\ UNCHANGED <<ns, k>>
    /\ UNCHANGED <<aws, disk, rec>>

\* ------------------------------------------------------------ cells 618-651
\* What get_ingestion_job can report next (STARTING -> IN_PROGRESS ->
\* COMPLETE or FAILED; COMPLETE and FAILED are final).
Advance(st) ==
    CASE st = "STARTING" -> {"STARTING", "IN_PROGRESS"}
      [] st = "IN_PROGRESS" -> {"IN_PROGRESS", "COMPLETE", "FAILED"}
      [] OTHER -> {st}

\* A loop that stops at either final status.
KeepPollingUntilFinal(status) == status \notin {"COMPLETE", "FAILED"}

\* The loop condition of line 619: job['status'] != 'COMPLETE'.
KeepPolling(status) == status # "COMPLETE"

\* while(job['status']!='COMPLETE'): job = get_ingestion_job(...)["ingestionJob"];
\* interactive_sleep(30)
PollJob ==
    /\ Running("poll_job")
    /\ Defined({"job", "kb", "ds"})
    /\ KeepPolling(k.job)
    /\ \E r \in Advance(aws.jobStatus) :
         /\ aws' = [aws EXCEPT !.jobStatus = r]
         /\ k' = [k EXCEPT !.job = r]
    /\ rec' = [rec EXCEPT !.jobPolls = Min(@ + 1, PollCap)]
    /\ ns' = ns \cup {"get_job_response"}
    /\ Goto("poll_job")
    /\ UNCHANGED disk

\* The loop condition is false: pp.pprint(job).
PollJobExit ==
    /\ Running("poll_job")
    /\ Defined({"job"})
    /\ ~KeepPolling(k.job)
    /\ Goto("kb_id")
    /\ UNCHANGED <<ns, k, aws, disk, rec>>

\* job is unbound: the loop condition raises NameError.
PollJobUnbound ==
    /\ Running("poll_job")
    /\ ~Defined({"job"})
    /\ Raise("NameError")
    /\ UNCHANGED <<ns, k, aws, disk, rec>>

\* kb_id = kb["knowledgeBaseId"]
KbId ==
    /\ Running("kb_id")
    /\ IF Defined({"kb"})
       THEN k' = [k EXCEPT !.kb_id = k.kb] /\ ns' = ns \cup {"kb_id"} /\ Goto("store")
       ELSE Raise("NameError") /\ UNCHANGED <<ns, k>>
    /\ UNCHANGED <<aws, disk, rec>>

\* %store kb_id
Store ==
    /\ Running("store")
    /\ IF Defined({"kb_id"})
       THEN /\ disk' = [disk EXCEPT !.store = k.kb_id]
            /\ rec' = [rec EXCEPT !.stored = TRUE]
            /\ Goto("end")
       ELSE Raise("UsageError") /\ UNCHANGED <<disk, rec>>
    /\ UNCHANGED <<ns, k, aws>>

Next ==
    \/ Setup \/ BucketHead \/ BucketCreate \/ Names \/ Collection \/ Host
    \/ WaitCollection \/ WaitCollectionPoll \/ WaitCollectionExit
    \/ AccessPolicy \/ IndexSetup \/ CreateIndex \/ Download \/ Upload
    \/ KbConfig \/ CreateKb \/ CreateKbPrint \/ GetKb \/ CreateDs \/ GetDs
    \/ StartJob \/ Job \/ PollJob \/ PollJobExit \/ PollJobUnbound
    \/ KbId \/ Store \/ Resume

\* ------------------------------------------------------ a second run
\* The same notebook run in another kernel on the same account and region:
\* bucket_name has no suffix (line 156), so both runs name the same bucket;
\* the collection name holds the run's own suffix.  The second run is followed
\* through its bucket cell (166-175) and its create_collection call (217); an
\* uncaught exception stops it.
OtherStarts ==
    {[pc |-> "bucket", err |-> "none", suffix |-> s, calls |-> <<>>] : s \in Suffixes}

OtherLeaves == UNCHANGED <<pc, err, raised, ns, k, disk, rec, queryVars>>

OtherBucketHead ==
    /\ other.pc = "bucket" /\ other.err = "none"
    /\ other' = [other EXCEPT
                   !.pc = IF aws.bucketExists THEN "collection" ELSE "bucket_create"]
    /\ UNCHANGED aws
    /\ OtherLeaves

OtherBucketCreate ==
    /\ other.pc = "bucket_create" /\ other.err = "none"
    /\ IF aws.bucketExists
       THEN /\ other' = [other EXCEPT !.err = "BucketAlreadyOwnedByYou",
                                      !.calls = Append(@, "create_bucket")]
            /\ UNCHANGED aws
       ELSE /\ other' = [other EXCEPT !.pc = "collection",
                                      !.calls = Append(@, "create_bucket")]
            /\ aws' = [aws EXCEPT !.bucketExists = TRUE]
    /\ OtherLeaves

OtherCollection ==
    /\ other.pc = "collection" /\ other.err = "none"
    /\ IF aws.collStatus[other.suffix] # "NONE"
       THEN /\ other' = [other EXCEPT !.err = "ConflictException",
                                      !.calls = Append(@, "create_collection")]
            /\ UNCHANGED aws
       ELSE /\ other' = [other EXCEPT !.pc = "done",
                                      !.calls = Append(@, "create_collection")]
            /\ aws' = [aws EXCEPT !.collStatus[other.suffix] = "CREATING"]
    /\ OtherLeaves

NextTwoRuns == Next \/ OtherBucketHead \/ OtherBucketCreate \/ OtherCollection



\* ======================================================== query notebook
\* unnamed/part_000, cells 91-285: %store -r kb_id, then the pass
\*   query/retrieve (181-184) -> contexts (214) -> prompt (231-243)
\*   -> payload (262-269) -> invoke (278-285).
\* Nothing in these cells catches an exception: a cell that raises ends the
\* pass.  The reader asks the next query by running the cells from 181 again
\* in the same kernel, whose variables keep their values.

Queries == {"Q1", "Q2"}

KnownKbs == {"KB1"}

Passage(t, s) == [content |-> [text |-> t], score |-> s]

\* The chunks the knowledge base holds; documents about JSON contain braces.
Passages == {Passage("A", 9), Passage("{0}", 5), Passage("{x}", 3)}

\* The retrievalResults lists the service can return for numberOfResults = 5.
ResultSeqs == UNION {[1..n -> Passages] : n \in 0..Min(MaxResults, NumberOfResults)}

\* What bedrock_agent_client.retrieve does with the request: an unknown
\* knowledge base id is refused; a known one is answered or the call errors.
RetrieveOutcomes(kbId) ==
    IF kbId \notin KnownKbs
    THEN {[exc |-> "ResourceNotFoundException", results |-> <<>>]}
    ELSE {[exc |-> "none", results |-> rs] : rs \in ResultSeqs}
         \cup {[exc |-> "ThrottlingException", results |-> <<>>]}

\* The errors the client counts as retryable.
Retryable == {"ThrottlingException"}

\* The request retrieve builds from its arguments (lines 150-160).
RetrieveRequest(query, kbId, numberOfResults) ==
    [text |-> query, knowledgeBaseId |-> kbId,
     numberOfResults |-> numberOfResults, overrideSearchType |-> "HYBRID"]

\* Sends for a client created without config=bedrock_config, as bedrock_client
\* is at line 126: the client's built-in retries apply.
SendsUnconfigured(out) == IF out.exc \in Retryable THEN 5 ELSE 1

\* How many times bedrock_agent_client sends the request of one retrieve call:
\* once, and again after a retryable error up to retries['max_attempts'] times
\* (bedrock_config, lines 125-128).
Sends(out) == IF out.exc \in Retryable THEN 1 + RetriesMaxAttempts ELSE 1

\* retrieve with the client call wrapped in try/except returning no results.
retrieve_swallow(out) == [raised |-> "none", value |-> out.results]

\* def retrieve(query, kbId, numberOfResults=5): return
\* bedrock_agent_client.retrieve(...) -- the client's answer or its exception,
\* unchanged.
retrieve(out) == [raised |-> out.exc, value |-> out.results]

\* get_contexts with contexts.insert(0, ...) in place of contexts.append(...).
RECURSIVE get_contexts_prepend(_)
get_contexts_prepend(retrievalResults) ==
    IF retrievalResults = <<>> THEN <<>>
    ELSE get_contexts_prepend(Tail(retrievalResults))
         \o <<Head(retrievalResults).content.text>>

\* def get_contexts(retrievalResults): contexts = []; for retrievedResult in
\* retrievalResults: contexts.append(retrievedResult['content']['text'])
RECURSIVE get_contexts(_)
get_contexts(retrievalResults) ==
    IF retrievalResults = <<>> THEN <<>>
    ELSE <<Head(retrievalResults).content.text>>
         \o get_contexts(Tail(retrievalResults))

\* Strings are sequences of tokens.  str(list) of a list of strings:
\* "[" + ", ".join(repr(s) for s in list) + "]".
RECURSIVE ReprItems(_)
ReprItems(l) ==
    IF l = <<>> THEN <<>>
    ELSE IF Len(l) = 1 THEN <<"'", l[1], "'">>
    ELSE <<"'", l[1], "'", ", ">> \o ReprItems(Tail(l))

Repr(l) == <<"[">> \o ReprItems(l) \o <<"]">>

\* The literal of the prompt cell: text with the replacement fields {contexts}
\* and {query}.
PromptLiteral ==
    <<"Human: ... <context>", "{contexts}", "</context> <question>", "{query}",
      "</question> ... Assistant:">>

\* Evaluation of an f-string literal: each replacement field is replaced by
\* str() of the variable it names, other text is copied.  Nothing checks which
\* fields the literal holds.
RECURSIVE FString(_, _, _)
FString(literal, contexts, query) ==
    IF literal = <<>> THEN <<>>
    ELSE (IF Head(literal) = "{contexts}" THEN Repr(contexts)
          ELSE IF Head(literal) = "{query}" THEN <<query>>
          ELSE <<Head(literal)>>) \o FString(Tail(literal), contexts, query)

\* prompt = f"""Human: ... <context>{contexts}</context> <question>{query}
\* </question> ... Assistant:"""  -- evaluated when the cell runs.
Prompt(contexts, query) == FString(PromptLiteral, contexts, query)

\* str.format(a0, a1) on a token sequence: "{0}" and "{1}" are replaced by
\* str(a0) and a1, a named field raises KeyError, other text is copied.
RECURSIVE Subst(_, _, _)
Subst(s, a0, a1) ==
    IF s = <<>> THEN <<>>
    ELSE (IF Head(s) = "{0}" THEN Repr(a0)
          ELSE IF Head(s) = "{1}" THEN <<a1>>
          ELSE <<Head(s)>>) \o Subst(Tail(s), a0, a1)

Format(s, a0, a1) ==
    IF \E i \in DOMAIN s : s[i] = "{x}"
    THEN [raised |-> "KeyError", value |-> <<>>]
    ELSE [raised |-> "none", value |-> Subst(s, a0, a1)]

\* The bodies invoke_model can return.
AnswerTexts == {"T1", "T2"}

Bodies ==
    {[content |-> <<[type |-> "text", text |-> t]>>] : t \in AnswerTexts}
    \cup {[content |-> <<>>],
          [content |-> <<[type |-> "tool_use"]>>],
          [content |-> <<[type |-> "tool_use"], [type |-> "text", text |-> "T1"]>>],
          [type |-> "error"]}

\* A body without a content list that holds a text entry.
Malformed(body) ==
    \/ "content" \notin DOMAIN body
    \/ ~ \E i \in DOMAIN body.content : "text" \in DOMAIN body.content[i]

\* What bedrock_client.invoke_model can do: answer with a body, or raise.
GenOutcomes ==
    {[exc |-> "none", body |-> b] : b \in Bodies}
    \cup {[exc |-> e, body |-> [type |-> "error"]] :
            e \in {"ThrottlingException", "ReadTimeoutError"}}

\* ResponseText with defaults in place of the subscripts:
\* (response_body.get('content') or [{}])[0].get('text', '').
ResponseTextLenient(response_body) ==
    IF "content" \notin DOMAIN response_body
    THEN [raised |-> "none", value |-> ""]
    ELSE IF Len(response_body.content) = 0
    THEN [raised |-> "none", value |-> ""]
    ELSE IF "text" \notin DOMAIN response_body.content[1]
    THEN [raised |-> "none", value |-> ""]
    ELSE [raised |-> "none", value |-> response_body.content[1].text]

\* response_text = response_body.get('content')[0]['text']
ResponseText(response_body) ==
    IF "content" \notin DOMAIN response_body
    THEN [raised |-> "TypeError", value |-> ""]
    ELSE IF Len(response_body.content) = 0
    THEN [raised |-> "IndexError", value |-> ""]
    ELSE IF "text" \notin DOMAIN response_body.content[1]
    THEN [raised |-> "KeyError", value |-> ""]
    ELSE [raised |-> "none", value |-> response_body.content[1].text]

QCells == <<"store_r", "query", "contexts", "prompt", "payload", "invoke", "done">>

QIndex(c) == CHOOSE i \in 1..Len(QCells) : QCells[i] = c

\* The positions after cell c has completed.
QAfter(c) == {QCells[i] : i \in (QIndex(c) + 1)..Len(QCells)}

\* The record of a pass: nq its number, asked the query text, log the service
\* calls and prompt assemblies in order, faults what the stubs injected,
\* requests the requests the retrieval service received,
\* returned/retrieved what retrieve gave back, template the literal the prompt
\* was built from, sent the prompt the generation service received, printed
\* the answer texts shown, prevSent the prompt of the pass before.
NewPass(n, prev) == [nq |-> n, asked |-> "", log |-> <<>>, faults |-> {},
                     requests |-> <<>>,
                     returned |-> FALSE, retrieved |-> <<>>, template |-> <<>>,
                     sent |-> <<>>, printed |-> <<>>, prevSent |-> prev]

InitQuery ==
    /\ qpc = "store_r"
    /\ qerr = "none"
    /\ q = [kb_id |-> "", query |-> "", retrievalResults |-> <<>>,
            contexts |-> <<>>, prompt |-> <<>>, sonnet_payload |-> <<>>,
            response_text |-> "", chain |-> {}]
    /\ qrec = NewPass(1, <<>>)

QRaise(e) ==
    /\ qerr' = e
    /\ qpc' = qpc
    /\ UNCHANGED provVars

QGoto(p) ==
    /\ qpc' = p
    /\ qerr' = "none"
    /\ UNCHANGED provVars

QRunning(p) == qpc = p /\ qerr = "none"

\* %store -r kb_id (line 91): the stored id, of a knowledge base that exists or
\* of one that does not; with nothing stored kb_id stays unbound ("").
StoreRestore ==
    /\ QRunning("store_r")
    /\ \E id \in {"", "KB1", "KB9"} : q' = [q EXCEPT !.kb_id = id]
    /\ QGoto("query")
    /\ UNCHANGED qrec

\* query = "..."; response = retrieve(query, kb_id, 5);
\* retrievalResults = response['retrievalResults']
QueryCell ==
    /\ QRunning("query")
    /\ \E t \in Queries :
         IF q.kb_id = ""
         THEN /\ q' = [q EXCEPT !.query = t]
              /\ qrec' = [qrec EXCEPT !.asked = t]
              /\ QRaise("NameError")
         ELSE \E out \in RetrieveOutcomes(q.kb_id) :
                LET r == retrieve(out)
                    sent == [i \in 1..Sends(out) |->
                               RetrieveRequest(t, q.kb_id, NumberOfResults)]
                IN
                IF r.raised # "none"
                THEN /\ q' = [q EXCEPT !.query = t]
                     /\ qrec' = [qrec EXCEPT !.asked = t,
                                            !.requests = sent,
                                            !.log = Append(@, "retrieve"),
                                            !.faults = @ \cup {"retrieval"}]
                     /\ QRaise(r.raised)
                ELSE /\ q' = [q EXCEPT !.query = t, !.retrievalResults = r.value]
                     /\ qrec' = [qrec EXCEPT
                                   !.asked = t,
                                   !.requests = sent,
                                   !.log = Append(@, "retrieve"),
                                   !.faults = IF out.exc = "none" THEN @
                                              ELSE @ \cup {"retrieval"},
                                   !.returned = TRUE,
                                   !.retrieved = out.results]
                     /\ QGoto("contexts")

\* ContextsCell that ends the pass when nothing was retrieved.
ContextsCellSkipEmpty ==
    /\ QRunning("contexts")
    /\ q' = [q EXCEPT !.contexts = get_contexts(q.retrievalResults)]
    /\ IF q.retrievalResults = <<>> THEN QGoto("done") ELSE QGoto("prompt")
    /\ UNCHANGED qrec

\* ContextsCell that rejects an empty result list.
ContextsCellRejectEmpty ==
    /\ QRunning("contexts")
    /\ IF q.retrievalResults = <<>>
       THEN QRaise("ValueError") /\ UNCHANGED q
       ELSE q' = [q EXCEPT !.contexts = get_contexts(q.retrievalResults)]
            /\ QGoto("prompt")
    /\ UNCHANGED qrec

\* contexts = get_contexts(retrievalResults)
ContextsCell ==
    /\ QRunning("contexts")
    /\ q' = [q EXCEPT !.contexts = get_contexts(q.retrievalResults)]
    /\ QGoto("prompt")
    /\ UNCHANGED qrec

\* PromptCell that builds the prompt once and keeps it afterwards.
PromptCellOnce ==
    /\ QRunning("prompt")
    /\ q' = [q EXCEPT !.prompt = IF @ = <<>> THEN Prompt(q.contexts, q.query) ELSE @]
    /\ qrec' = [qrec EXCEPT !.log = Append(@, "prompt"), !.template = PromptLiteral]
    /\ QGoto("payload")

\* prompt = f"""...{contexts}...{query}..."""
PromptCell ==
    /\ QRunning("prompt")
    /\ q' = [q EXCEPT !.prompt = Prompt(q.contexts, q.query)]
    /\ qrec' = [qrec EXCEPT !.log = Append(@, "prompt"), !.template = PromptLiteral]
    /\ QGoto("payload")

\* messages = [... 'text': prompt.format(contexts, query) ...];
\* sonnet_payload = json.dumps({... "messages": messages ...})
PayloadCell ==
    /\ QRunning("payload")
    /\ LET f == Format(q.prompt, q.contexts, q.query) IN
         IF f.raised # "none"
         THEN QRaise(f.raised) /\ UNCHANGED q
         ELSE q' = [q EXCEPT !.sonnet_payload = f.value] /\ QGoto("invoke")
    /\ UNCHANGED qrec

\* response = bedrock_client.invoke_model(body=sonnet_payload, ...);
\* response_body = json.loads(...); response_text = ...; pp.pprint(response_text)
InvokeCell ==
    /\ QRunning("invoke")
    /\ \E out \in GenOutcomes :
         LET t == ResponseText(out.body)
             seen == [qrec EXCEPT
                        !.log = Append(@, "generate"),
                        !.sent = q.sonnet_payload,
                        !.faults = @ \cup (IF out.exc # "none" THEN {"generation"}
                                           ELSE IF Malformed(out.body) THEN {"shape"}
                                           ELSE {})]
         IN
         IF out.exc # "none"
         THEN qrec' = seen /\ QRaise(out.exc) /\ UNCHANGED q
         ELSE IF t.raised # "none"
         THEN qrec' = seen /\ QRaise(t.raised) /\ UNCHANGED q
         ELSE /\ qrec' = [seen EXCEPT !.printed = Append(@, t.value)]
              /\ q' = [q EXCEPT !.response_text = t.value]
              /\ QGoto("done")

\* The reader edits the query text and runs the cells from 181 again.
NewQuery ==
    /\ qpc = "done" \/ (qerr # "none" /\ qpc # "store_r")
    /\ qrec.nq < MaxQueries
    /\ qrec' = NewPass(qrec.nq + 1, qrec.sent)
    /\ QGoto("query")
    /\ UNCHANGED q

NextQuery ==
    \/ StoreRestore \/ QueryCell \/ ContextsCell \/ PromptCell \/ PayloadCell
    \/ InvokeCell \/ NewQuery

\* ------------------------------------------------------------ cells 305-397
\* The cells below the invoke cell, run on from it.  q.chain holds the names
\* they have bound.
\* llm = BedrockChat(model_id=modelId, client=bedrock_client)
LlmCell ==
    /\ QRunning("done")
    /\ q' = [q EXCEPT !.chain = @ \cup {"llm"}]
    /\ QGoto("retriever")
    /\ UNCHANGED qrec

\* query = "..."; retriever = AmazonKnowledgeBasesRetriever(knowledge_base_id=
\* kb_id, ... "numberOfResults": 4 ...); docs = retriever.get_relevant_documents(
\* query=query); pp.pprint(docs)
RetrieverCell ==
    /\ QRunning("retriever")
    /\ IF q.kb_id = ""
       THEN /\ q' = q
            /\ qrec' = qrec
            /\ QRaise("NameError")
       ELSE \E exc \in {out.exc : out \in RetrieveOutcomes(q.kb_id)} :
              /\ qrec' = [qrec EXCEPT
                            !.requests = Append(@, RetrieveRequest(q.query, q.kb_id, 4))]
              /\ IF exc = "none"
                 THEN /\ q' = [q EXCEPT !.chain = @ \cup {"retriever", "docs"}]
                      /\ QGoto("claude_prompt")
                 ELSE /\ q' = [q EXCEPT !.chain = @ \cup {"retriever"}]
                      /\ QRaise(exc)

\* PROMPT_TEMPLATE = """..."""; claude_prompt = PromptTemplate(template=
\* PROMPT_TEMPLATE, input_variables=["context","question"])
ClaudePromptCell ==
    /\ QRunning("claude_prompt")
    /\ q' = [q EXCEPT !.chain = @ \cup {"PROMPT_TEMPLATE", "claude_prompt"}]
    /\ QGoto("qa_invoke")
    /\ UNCHANGED qrec

\* answer = qa.invoke(query); pp.pprint(answer).  The text that builds qa
\* (qa = RetrievalQA.from_chain_type(...), lines 379-387) is a markdown cell:
\* it is not executed and binds nothing.
QaInvokeCell ==
    /\ QRunning("qa_invoke")
    /\ IF "qa" \notin q.chain
       THEN q' = q /\ QRaise("NameError")
       ELSE \E ok \in BOOLEAN :
              IF ok
              THEN q' = [q EXCEPT !.chain = @ \cup {"answer"}] /\ QGoto("chain_end")
              ELSE q' = q /\ QRaise("ChainError")
    /\ UNCHANGED qrec

NextChain ==
    \/ NextQuery
    \/ LlmCell \/ RetrieverCell \/ ClaudePromptCell \/ QaInvokeCell

\* The prompt cell after the reader has edited its literal: the literal as
\* written, or one with a replacement field deleted.
Templates ==
    {PromptLiteral,
     <<"Human: ... <context>", "{contexts}", "</context> <question>",
       "</question> ... Assistant:">>,
     <<"Human: ... <context>", "</context> <question>", "{query}",
       "</question> ... Assistant:">>}

EditedPromptCell ==
    /\ QRunning("prompt")
    /\ \E literal \in Templates :
         /\ q' = [q EXCEPT !.prompt = FString(literal, q.contexts, q.query)]
         /\ qrec' = [qrec EXCEPT !.log = Append(@, "prompt"), !.template = literal]
    /\ QGoto("payload")

NextTemplate ==
    \/ StoreRestore \/ QueryCell \/ ContextsCell \/ EditedPromptCell
    \/ PayloadCell \/ InvokeCell \/ NewQuery

\* ======================================================== specifications
QueryIdle ==
    /\ qpc = "idle"
    /\ qerr = "none"
    /\ q = [kb_id |-> "", query |-> "", retrievalResults |-> <<>>,
            contexts |-> <<>>, prompt |-> <<>>, sonnet_payload |-> <<>>,
            response_text |-> "", chain |-> {}]
    /\ qrec = NewPass(1, <<>>)

ProvIdle ==
    /\ pc = "idle"
    /\ err = "none"
    /\ raised = {}
    /\ ns = {}
    /\ k = NoValues
    /\ aws = Fresh
    /\ other = OtherOff
    /\ disk = [data |-> 0, saved |-> <<>>, store |-> 0]
    /\ rec = NoCalls(FALSE)

Init == InitProv /\ other = OtherOff /\ QueryIdle

\* The provisioning notebook.
Spec == Init /\ [][Next]_vars

\* Two runs started on an account where nothing is provisioned.
InitTwoRuns == InitProv /\ aws = Fresh /\ other \in OtherStarts /\ QueryIdle

SpecTwoRuns == InitTwoRuns /\ [][NextTwoRuns]_vars

InitQ == ProvIdle /\ InitQuery

\* The query notebook.
SpecQuery == InitQ /\ [][NextQuery]_vars

\* The query notebook with its prompt literal edited.
SpecTemplate == InitQ /\ [][NextTemplate]_vars

\* The query notebook run on through its last cell.
SpecChain == InitQ /\ [][NextChain]_vars


\* ================================================================ claims
IsPrefix(s, t) ==
    /\ Len(s) <= Len(t)
    /\ \A i \in 1..Len(s) : s[i] = t[i]

Order == <<"retrieve", "prompt", "generate">>

\* The prompt a pass must send: built from what this pass retrieved and asked.
OwnPrompt ==
    Format(Prompt(get_contexts(qrec.retrieved), qrec.asked),
           get_contexts(qrec.retrieved), qrec.asked).value

\* ------------------------------------------------------------------- C1
\* C1 (as claimed): while the collection stays CREATING the wait loop polls at
\* most MaxWaitPolls times, and when that budget is used up the cell has
\* failed with ProvisioningTimeout.
C1_TimeoutWithinMaxWait ==
    /\ rec.collPolls <= MaxWaitPolls
    /\ (pc = "wait_collection_loop" /\ k.response = "CREATING"
        /\ rec.collPolls = MaxWaitPolls) => err = "ProvisioningTimeout"

\* ------------------------------------------------------------------- C2
\* C2 (as claimed): once the polled ingestion status is FAILED the next step
\* ends the cell in an error without another poll, and once it is COMPLETE the
\* next step leaves the loop.
C2_PollUntilTerminal ==
    [][/\ (Running("poll_job") /\ k.job = "FAILED")
            => (err' # "none" /\ rec' = rec)
       /\ (Running("poll_job") /\ k.job = "COMPLETE")
            => (pc' = "kb_id" /\ rec' = rec)]_vars

\* ------------------------------------------------------------------- C3
\* C3 (as claimed): a run against a backend that an earlier run left
\* provisioned issues none of the creation calls.
C3_SecondRunCreatesNothing ==
    rec.provisionedBefore => Range(rec.calls) \cap CreationCalls = {}

\* ------------------------------------------------------------------- C4
\* C4 (as claimed): the cells after the collection wait are reached, without
\* the wait cell having raised, only with the collection ACTIVE.
C4_ActiveBeforeLaterSteps ==
    (pc \in After("wait_collection") /\ "wait_collection" \notin raised)
        => aws.collStatus[k.suffix] = "ACTIVE"

\* ------------------------------------------------------------------- C5
\* C5: in every pass the retrieval call, the prompt assembly and the generation
\* call happen in this order, each at its cell; a pass that ends without an
\* exception has made all three, also when nothing was retrieved.
C5_FixedOrder ==
    /\ IsPrefix(qrec.log, Order)
    /\ qpc \in QAfter("query") => Len(qrec.log) >= 1
    /\ qpc \in QAfter("prompt") => Len(qrec.log) >= 2
    /\ qpc = "done" => qrec.log = Order

C5_Witness ==
    /\ qpc = "done"
    /\ qrec.returned /\ qrec.retrieved = <<>>
    /\ qrec.log = Order
    /\ qrec.sent = Prompt(<<>>, qrec.asked)

\* ------------------------------------------------------------------- C6
\* C6: the prompt the generation service receives in a pass is the one built
\* from the passages this pass retrieved and the query this pass asked.
C6_NoMixing ==
    "generate" \in Range(qrec.log) => qrec.sent = OwnPrompt

C6_Witness ==
    /\ qrec.nq = 2
    /\ qpc = "done"
    /\ qrec.prevSent # <<>>
    /\ qrec.prevSent # qrec.sent
    /\ qrec.retrieved # <<>>

\* ------------------------------------------------------------------- C7
\* C7: a pass in which the retrieval call failed, the generation call failed
\* or the generation response was malformed has ended in an exception, and a
\* pass that ended in an exception has shown no answer text.
C7_NoAnswerOnFailure ==
    /\ qrec.faults # {} => qerr # "none"
    /\ qerr # "none" => qrec.printed = <<>>

C7_Witness ==
    /\ qpc = "invoke"
    /\ qrec.faults = {"shape"}
    /\ qerr = "KeyError"
    /\ qrec.printed = <<>>

\* ------------------------------------------------------------------- C8
\* C8: once the contexts cell has run, contexts has the length of the results
\* the service returned and contexts[i] is the text of result i.
C8_OrderPreserved ==
    qpc \in QAfter("contexts") =>
        /\ Len(q.contexts) = Len(qrec.retrieved)
        /\ \A i \in 1..Len(qrec.retrieved) :
             q.contexts[i] = qrec.retrieved[i].content.text

C8_Witness ==
    /\ qpc = "prompt"
    /\ Len(qrec.retrieved) = 2
    /\ qrec.retrieved[1].score < qrec.retrieved[2].score
    /\ q.contexts = <<qrec.retrieved[1].content.text,
                      qrec.retrieved[2].content.text>>

\* ------------------------------------------------------------------- C9
\* C9: when the service returns no results, the query cell and the contexts
\* cell raise nothing and contexts is the empty list.
C9_EmptyIsNotAnError ==
    (qrec.returned /\ qrec.retrieved = <<>>) =>
        /\ ~(qpc \in {"query", "contexts"} /\ qerr # "none")
        /\ qpc \in QAfter("contexts") => q.contexts = <<>>

C9_Witness ==
    /\ qpc = "prompt"
    /\ qerr = "none"
    /\ qrec.returned /\ qrec.retrieved = <<>>
    /\ q.contexts = <<>>

\* ------------------------------------------------------------------ C10
\* C10: when the knowledge base id is unknown to the service or the retrieval
\* call errors, the pass has ended at the query cell in the service's
\* exception and retrieve has returned nothing.
RetrievalErrors == {"ResourceNotFoundException", "ThrottlingException"}

C10_RetrievalErrorPropagates ==
    /\ "retrieval" \in qrec.faults =>
         (qpc = "query" /\ qerr \in RetrievalErrors /\ ~qrec.returned)
    /\ ~(q.kb_id \notin KnownKbs /\ qpc \in QAfter("query"))

C10_Witness ==
    /\ qpc = "query"
    /\ q.kb_id = "KB9"
    /\ qerr = "ResourceNotFoundException"
    /\ ~qrec.returned

\* ------------------------------------------------------------------ C11
\* C11 (as claimed): assembling the message text never fails, and in the text
\* sent the retrieved passages stand in their order inside the context block,
\* the query stands exactly once, in the question slot, and no replacement
\* field of the literal is left.
ContextClose == "</context> <question>"

C11_PromptBuilt ==
    /\ ~(qpc = "payload" /\ qerr # "none")
    /\ qpc \in QAfter("payload") =>
         LET s == q.sonnet_payload
             texts == get_contexts(qrec.retrieved)
         IN /\ \E j \in DOMAIN s :
                  /\ s[j] = ContextClose
                  /\ j < Len(s) /\ s[j + 1] = qrec.asked
                  /\ \A a, b \in DOMAIN texts : a < b =>
                        \E i1, i2 \in 2..(j - 1) :
                            i1 < i2 /\ s[i1] = texts[a] /\ s[i2] = texts[b]
            /\ Cardinality({i \in DOMAIN s : s[i] = qrec.asked}) = 1
            /\ \A i \in DOMAIN s : s[i] \notin {"{contexts}", "{query}"}

\* ------------------------------------------------------------------ C12
\* C12 (as claimed): a prompt is built only from a literal that holds both the
\* context field and the question field; a literal lacking one is rejected
\* before any prompt is built from it.
HasPlaceholders(literal) == {"{contexts}", "{query}"} \subseteq Range(literal)

C12_TemplateRejected ==
    qrec.template # <<>> => HasPlaceholders(qrec.template)

\* ------------------------------------------------------------------ C13
\* C13 (as claimed): a throttled generation call is made again; when the
\* service throttles the first two calls and would answer the third, no pass
\* ends in ThrottlingException before invoke_model has been called three times.
GenerationCalls == Cardinality({i \in DOMAIN qrec.log : qrec.log[i] = "generate"})

C13_ThrottledCallRetried ==
    (qpc = "invoke" /\ qerr = "ThrottlingException") => GenerationCalls >= 3

\* ------------------------------------------------------------------ C14
\* C14 (as claimed): a permission error of the access-policy call or of a
\* create_knowledge_base attempt stops its cell with the error: it is not
\* swallowed, and the failed call is not made again.
C14_PermanentErrorPropagates ==
    /\ rec.policyOutcome = "AccessDenied" => "access_policy" \in raised
    /\ rec.kbOutcome = "AccessDeniedException" => "create_kb" \in raised

\* ------------------------------------------------------------------ C15
\* C15: when the policy call answers 'already exists', the access-policy cell
\* does not raise and the notebook is past it, at the next cell or beyond.
C15_AlreadyExistsIsSuccess ==
    rec.policyOutcome = "already_exists" =>
        /\ "access_policy" \notin raised
        /\ CellOf(pc) \in After("access_policy")

C15_Witness ==
    /\ rec.policyOutcome = "already_exists"
    /\ pc = "index_setup"
    /\ err = "none"

\* ------------------------------------------------------------------ C16
\* C16 (as claimed): with two runs interleaved, neither run is stopped by the
\* service refusing a bucket or collection the other run has created, and
\* the creation of the same bucket or collection is not requested by both.
SameCollection == other.suffix = k.suffix

C16_ConcurrentRunsDeduplicate ==
    /\ other.err = "none"
    /\ err # "BucketAlreadyOwnedByYou"
    /\ ~(pc = "collection" /\ err = "ConflictException"
         /\ "create_collection" \in Range(rec.calls))
    /\ ~("create_bucket" \in Range(rec.calls) /\ "create_bucket" \in Range(other.calls))
    /\ ~(/\ SameCollection
         /\ "create_collection" \in Range(rec.calls)
         /\ "create_collection" \in Range(other.calls))

\* ------------------------------------------------------------------ C17
\* C17 (as claimed): once the index cell has finished without raising, the
\* index named index_name exists.
C17_IndexExistsAfterStep ==
    (CellOf(pc) \in After("create_index") /\ "create_index" \notin raised)
        => k.index_name \in aws.indexes

\* ------------------------------------------------------------------ C18
\* C18: create_knowledge_base_func makes at most stop_max_attempt_number
\* attempts, waits between two consecutive attempts, and when the last
\* attempt has failed its exception has reached the cell that called it and
\* no further attempt follows.
C18_BoundedKbAttempts ==
    /\ rec.kbAttempts <= StopMaxAttemptNumber
    /\ rec.kbWaits >= rec.kbAttempts - 1
    /\ (rec.kbAttempts = StopMaxAttemptNumber /\ rec.kbOutcome # "ok")
         => (rec.kbCaught = rec.kbOutcome /\ pc # "create_kb")

C18_Witness ==
    /\ rec.kbAttempts = StopMaxAttemptNumber
    /\ rec.kbWaits = StopMaxAttemptNumber - 1
    /\ rec.kbOutcome = "ValidationException"
    /\ rec.kbCaught = "ValidationException"
    /\ pc = "create_kb_print"

\* ------------------------------------------------------------------ C19
\* C19: when start_ingestion_job has been issued, upload_file,
\* create_knowledge_base and create_data_source were issued before it, the
\* bucket holds the uploaded files and the knowledge base and its data source
\* exist.
Pos(log, c) == CHOOSE i \in DOMAIN log : log[i] = c

IssuedBefore(a, b) ==
    /\ a \in Range(rec.calls)
    /\ Pos(rec.calls, a) < Pos(rec.calls, b)

C19_UploadAndCreateBeforeIngestion ==
    "start_ingestion_job" \in Range(rec.calls) =>
        /\ IssuedBefore("upload_file", "start_ingestion_job")
        /\ IssuedBefore("create_knowledge_base", "start_ingestion_job")
        /\ IssuedBefore("create_data_source", "start_ingestion_job")
        /\ aws.objects > 0
        /\ k.kb \in aws.kbs
        /\ k.ds \in aws.dataSources

C19_Witness ==
    /\ pc = "job"
    /\ err = "none"
    /\ "start_ingestion_job" \in Range(rec.calls)
    /\ aws.jobStatus = "STARTING"
    /\ aws.objects = Min(NumUrls, NumFilenames)

\* ------------------------------------------------------------------ C20
\* C20: a retrieve call that returns has sent exactly one request, a call that
\* fails at most two, and every request sent carries the query text, the
\* knowledge base id and the result count the caller passed.
C20_OneRetrievalCall ==
    /\ "retrieve" \in Range(qrec.log) => Len(qrec.requests) >= 1
    /\ qrec.returned => Len(qrec.requests) = 1
    /\ Len(qrec.requests) <= 2
    /\ \A i \in DOMAIN qrec.requests :
         /\ qrec.requests[i].text = qrec.asked
         /\ qrec.requests[i].knowledgeBaseId = q.kb_id
         /\ qrec.requests[i].numberOfResults = NumberOfResults

C20_Witness ==
    /\ qpc = "query"
    /\ qerr = "ThrottlingException"
    /\ Len(qrec.requests) = 1
    /\ qrec.requests[1].text = "Q2"
    /\ qrec.requests[1].knowledgeBaseId = "KB1"

\* The cells that start the ingestion job and wait for it.
IngestionCells == {"start_job", "job", "poll_job"}

MeantFor(url) ==
    CASE url = "AWSEC2" -> "AmazonEC2UserGuide.pdf"
      [] url = "AmazonS3" -> "AmazonS3UserGuide.pdf"
      [] url = "amazondynamodb" -> "AmazonDynamodbDeveloperGuide.pdf"
      [] url = "AmazonRDS/AuroraUserGuide" -> "AmazonAuroraUserGuide.pdf"
      [] url = "lambda" -> "AmazonLambda.pdf"
      [] url = "vpc" -> "AmazonVPC.pdf"
      [] url = "athena" -> "AmazonAthena.pdf"
      [] url = "apigateway" -> "AmazonAPIGateway.pdf"
      [] url = "bedrock" -> "AmazonBedrock.pdf"
      [] url = "AmazonCloudFront" -> "AmazonCloudFront.pdf"
      [] url = "AmazonCloudWatch" -> "AmazonCloudWatch.pdf"
      [] url = "codewhisperer" -> "Amazoncodewhisperer.pdf"
      [] url = "cognito" -> "Amazoncognito.pdf"
      [] url = "documentdb" -> "Amazondocumentdb.pdf"
      [] url = "neptune" -> "neptune.pdf"
      [] OTHER -> "(no name)"

\* The download cell has run in this run.
DownloadRan == CellOf(pc) \in After("download") \/ "download" \in raised

\* C22  The document download loop completes for every URL of the list: once
\* the download cell has run it has not raised, every index of urls has a
\* file name (the two lists have equal length), each URL has been saved under
\* the file name meant for its document, and no two URLs have been saved
\* under the same file name.
C22_EveryUrlSaved ==
    DownloadRan =>
        /\ "download" \notin raised
        /\ DOMAIN urls = DOMAIN filenames
        /\ \A i \in DOMAIN urls :
              \E j \in DOMAIN disk.saved :
                 /\ disk.saved[j].url = urls[i]
                 /\ disk.saved[j].file = MeantFor(urls[i])
        /\ \A i, j \in DOMAIN disk.saved :
              disk.saved[i].file = disk.saved[j].file => i = j

\* C23  The vector index name bound into the knowledge base's storage
\* configuration (vectorIndexName) is the name of the index that was actually
\* created in the collection, although index_name is assigned twice with
\* different values: whenever this run has called create_knowledge_base, the
\* vectorIndexName of its storage configuration is the name this run passed
\* to indices.create, and if that call created an index, an index of that
\* name exists.
C23_IndexNameBound ==
    "create_knowledge_base" \in Range(rec.calls) =>
        /\ k.vectorIndexName # NoIndex
        /\ k.vectorIndexName = rec.indexRequested
        /\ rec.indexOutcome = "created" => k.vectorIndexName \in aws.indexes

\* A run has created its index and then its knowledge base.
C23_Witness ==
    /\ rec.indexOutcome = "created"
    /\ rec.kbOutcome = "ok"
    /\ rec.kbReturned = k.suffix
    /\ k.vectorIndexName = [base |-> "bedrock-sample-index", suffix |-> k.suffix]
    /\ k.vectorIndexName \in aws.indexes

\* C24  In each notebook run top to bottom from a fresh kernel, every function
\* or object that a code cell invokes has been defined by an earlier executed
\* code cell: when the run stands at the cell that runs qa.invoke(query), qa
\* is bound, and that cell does not stop with a NameError.
C24_DefinedBeforeInvoked ==
    qpc = "qa_invoke" => ("qa" \in q.chain /\ qerr # "NameError")

\* C25  The data source and the ingestion job are always created against the
\* knowledge base that this run's create_knowledge_base call returned: a run
\* whose knowledge-base creation has not succeeded has invoked neither
\* create_data_source nor start_ingestion_job, and the knowledge base id
\* either call was given is the one this run's creation returned, never one
\* left over from an earlier run.
C25_OwnKnowledgeBase ==
    /\ rec.dsKb # 0 => rec.dsKb = rec.kbReturned
    /\ rec.jobKb # 0 => rec.jobKb = rec.kbReturned
    /\ rec.kbReturned = 0 =>
          {"create_data_source", "start_ingestion_job"} \cap Range(rec.calls) = {}

====
